---- MODULE Spec2Model ----
(***************************************************************************)
(* go2rtc -> MQTT bridge (src/bridge.py).                                  *)
(*                                                                         *)
(* Text is modelled as a sequence of one-character strings, so that        *)
(* split, replace, endswith and f-string concatenation are computed        *)
(* character by character and two different inputs that format to the same *)
(* text really compare equal.  A JSON object is a function whose DOMAIN is *)
(* the set of keys that are present; an ordered mapping whose order        *)
(* matters (the payload, the tablets dict, a tablet's streams dict) is a   *)
(* sequence of entries in insertion order.                                 *)
(***************************************************************************)
EXTENDS Integers, Sequences, FiniteSets, TLC

(***************************************************************************)
(* Text helpers (Python str methods used by the source).                   *)
(***************************************************************************)

\* Python's None, a value no text equals (text is made of single characters).
None == <<"None">>

\* Truthiness as used by `if remote_addr` / `if not ip` / `if unit`.
Falsy(v) == v = None \/ v = <<>>

SetMin(S) == CHOOSE m \in S : \A n \in S : m <= n

\* s.split(sep)[0]: the text before the first sep, the whole text without one.
SplitFirst(s, sep) ==
    LET at == {i \in 1..Len(s) : s[i] = sep}
    IN  IF at = {} THEN s ELSE SubSeq(s, 1, SetMin(at) - 1)

\* s.replace(a, b) for single characters a and b.
Replace(s, a, b) == [i \in 1..Len(s) |-> IF s[i] = a THEN b ELSE s[i]]

\* s.endswith(suffix)
EndsWith(s, suffix) ==
    /\ Len(s) >= Len(suffix)
    /\ SubSeq(s, Len(s) - Len(suffix) + 1, Len(s)) = suffix

Digit(d) == <<"0", "1", "2", "3", "4", "5", "6", "7", "8", "9">>[d + 1]

RECURSIVE NatToStr(_)
NatToStr(n) == IF n < 10 THEN <<Digit(n)>>
               ELSE NatToStr(n \div 10) \o <<Digit(n % 10)>>

\* str(n) for an int n.
IntToStr(n) == IF n < 0 THEN <<"-">> \o NatToStr(-n) ELSE NatToStr(n)

\* Literals of the source.
TabletSuffix == <<"_", "t", "a", "b", "l", "e", "t">>
TabletPrefix == <<"t", "a", "b", "l", "e", "t", "_">>
Go2rtcPrefix == <<"g", "o", "2", "r", "t", "c", "_">>

(***************************************************************************)
(* JSON helpers.                                                           *)
(***************************************************************************)

\* d.get(k, default) on a dict d.
Get(d, k, default) == IF k \in DOMAIN d THEN d[k] ELSE default

\* The empty dict {}.
EmptyDict == [k \in {} |-> <<>>]

\* A decoded JSON document: a mapping (its items in document order, each a
\* <<stream_name, stream_data>> pair) or a list.
Mapping(items) == [type |-> "dict", items |-> items]
JsonList(items) == [type |-> "list", items |-> items]

(***************************************************************************)
(* TabletExtractor                                                         *)
(***************************************************************************)

\* extract_ip without the split: the whole remote_addr, port included.
extract_ip_unsplit(remote_addr) ==
    IF Falsy(remote_addr) THEN None ELSE remote_addr

\* extract_ip: None for a falsy remote_addr, else the text before the first ':'.
extract_ip(remote_addr) ==
    IF Falsy(remote_addr) THEN None ELSE SplitFirst(remote_addr, ":")

\* Position of ip in the tablets dict, 0 when it is not a key.
IpIndex(tablets, ip) ==
    LET at == {i \in 1..Len(tablets) : tablets[i].ip = ip}
    IN  IF at = {} THEN 0 ELSE SetMin(at)

StreamIndex(streams, name) ==
    LET at == {i \in 1..Len(streams) : streams[i].stream_name = name}
    IN  IF at = {} THEN 0 ELSE SetMin(at)

\* An assignment that keeps the metric a key already has.
SetStream_keep_first(streams, metric) ==
    IF StreamIndex(streams, metric.stream_name) = 0 THEN Append(streams, metric)
    ELSE streams

\* d[name] = metric on an insertion-ordered dict: an existing key keeps its
\* place and gets the new value, a new key goes last.
SetStream(streams, metric) ==
    LET i == StreamIndex(streams, metric.stream_name)
    IN  IF i = 0 THEN Append(streams, metric)
        ELSE [streams EXCEPT ![i] = metric]

\* The StreamMetric of lines 54-58.
StreamMetric(stream_name, producer, consumer) ==
    [stream_name |-> stream_name,
     source      |-> Get(producer, "source", Get(producer, "url", <<>>)),
     format_name |-> Get(consumer, "format_name", <<>>),
     bytes_send  |-> Get(consumer, "bytes_send", 0)]

\* One iteration of the consumer loop (lines 46-58).
ExtractConsumer(tablets, stream_name, producer, consumer) ==
    LET ip == extract_ip(Get(consumer, "remote_addr", <<>>))
    IN  IF Falsy(ip) THEN tablets
        ELSE LET t1 == IF IpIndex(tablets, ip) # 0 THEN tablets
                       ELSE Append(tablets,
                                   [ip         |-> ip,
                                    user_agent |-> Get(consumer, "user_agent", <<>>),
                                    streams    |-> <<>>])
                 i  == IpIndex(t1, ip)
             IN  [t1 EXCEPT ![i].streams =
                     SetStream(@, StreamMetric(stream_name, producer, consumer))]

RECURSIVE ExtractConsumers(_, _, _, _)
ExtractConsumers(tablets, stream_name, producer, consumers) ==
    IF consumers = <<>> THEN tablets
    ELSE ExtractConsumers(
             ExtractConsumer(tablets, stream_name, producer, Head(consumers)),
             stream_name, producer, Tail(consumers))

\* The result of a call: a return value or a raised exception.
Returned(v) == [raised |-> FALSE, value |-> v]
Raised(e) == [raised |-> TRUE, error |-> e]

\* The stream loop without the suffix test of lines 41-42.
ExtractStream_unfiltered(tablets, stream_name, stream_data) ==
    LET producers == Get(stream_data, "producers", <<EmptyDict>>)
    IN  IF producers = <<>> THEN Raised("IndexError")
        ELSE Returned(ExtractConsumers(tablets, stream_name, producers[1],
                                       Get(stream_data, "consumers", <<>>)))

\* One iteration of the stream loop (lines 40-58) on the tablets built so far.
\* get('producers', [{}])[0] raises IndexError on a present, empty list.
ExtractStream(tablets, stream_name, stream_data) ==
    IF ~EndsWith(stream_name, TabletSuffix) THEN Returned(tablets)
    ELSE LET producers == Get(stream_data, "producers", <<EmptyDict>>)
         IN  IF producers = <<>> THEN Raised("IndexError")
             ELSE Returned(ExtractConsumers(tablets, stream_name, producers[1],
                                            Get(stream_data, "consumers", <<>>)))

RECURSIVE ExtractStreams(_, _)
ExtractStreams(tablets, items) ==
    IF items = <<>> THEN Returned(tablets)
    ELSE LET r == ExtractStream(tablets, Head(items)[1], Head(items)[2])
         IN  IF r.raised THEN r ELSE ExtractStreams(r.value, Tail(items))

\* extract_tablets: streams.items() raises AttributeError on anything but a
\* dict; an exception leaves no partial result.
extract_tablets(streams) ==
    IF streams.type # "dict" THEN Raised("AttributeError")
    ELSE ExtractStreams(<<>>, streams.items)

(***************************************************************************)
(* MbpsCalculator                                                          *)
(***************************************************************************)

\* POLL_INTERVAL's default.
poll_interval == 30

\* n / d rounded to the nearest integer, an exact half to the even neighbour
\* (n >= 0, d > 0).
RoundDiv(n, d) ==
    LET q == n \div d
        r == n % d
    IN  IF 2 * r < d THEN q
        ELSE IF 2 * r > d THEN q + 1
        ELSE IF q % 2 = 0 THEN q ELSE q + 1

Abs(n) == IF n < 0 THEN -n ELSE n

\* A number as Python holds it: the int 0 of the first call, or a float with
\* its sign and its magnitude in hundredths (round(x, 2) has no other digits).
IntNum(n) == [type |-> "int", neg |-> n < 0, hundredths |-> Abs(n) * 100]
FloatNum(neg, hundredths) == [type |-> "float", neg |-> neg, hundredths |-> hundredths]

\* The signed value of a number, in hundredths.
Hundredths(x) == IF x.neg THEN -x.hundredths ELSE x.hundredths

\* round((bytes_diff * 8) / (poll_interval * 1_000_000), 2).  True division
\* gives the double nearest the quotient and round() the nearest hundredth of
\* that double; the two differ from RoundDiv only when the quotient is an exact
\* half of a hundredth (bytes_diff an odd multiple of 18750 at interval 30).
Mbps(bytes_diff) ==
    FloatNum(bytes_diff < 0,
             RoundDiv(Abs(bytes_diff) * 8 * 100, poll_interval * 1000000))

\* calculate with the first sample measured from 0 instead of returning 0.
calculate_first_from_zero(prev, key, current_bytes) ==
    IF key \notin DOMAIN prev
    THEN [result |-> Mbps(current_bytes), previous_bytes |-> (key :> current_bytes) @@ prev]
    ELSE [result |-> Mbps(current_bytes - prev[key]),
          previous_bytes |-> [prev EXCEPT ![key] = current_bytes]]

\* calculate that keeps the first baseline for ever.
calculate_stale_baseline(prev, key, current_bytes) ==
    IF key \notin DOMAIN prev
    THEN [result |-> IntNum(0), previous_bytes |-> (key :> current_bytes) @@ prev]
    ELSE [result |-> Mbps(current_bytes - prev[key]), previous_bytes |-> prev]

\* calculate that clamps a negative rate to zero.
calculate_clamped(prev, key, current_bytes) ==
    IF key \notin DOMAIN prev
    THEN [result |-> IntNum(0), previous_bytes |-> (key :> current_bytes) @@ prev]
    ELSE [result |-> IF current_bytes < prev[key] THEN FloatNum(FALSE, 0)
                     ELSE Mbps(current_bytes - prev[key]),
          previous_bytes |-> [prev EXCEPT ![key] = current_bytes]]

\* calculate(key, current_bytes) on the previous_bytes dict prev: the returned
\* number and the dict afterwards.
calculate(prev, key, current_bytes) ==
    IF key \notin DOMAIN prev
    THEN [result |-> IntNum(0), previous_bytes |-> (key :> current_bytes) @@ prev]
    ELSE [result |-> Mbps(current_bytes - prev[key]),
          previous_bytes |-> [prev EXCEPT ![key] = current_bytes]]

\* str(x) of a number: an int prints its digits; a float prints the shortest
\* text that reads back as the same double, which for a multiple of 0.01 is its
\* integer part, a point and one or two decimals.
NumToStr(x) ==
    LET sign == IF x.neg THEN <<"-">> ELSE <<>>
        whole == NatToStr(x.hundredths \div 100)
        frac == x.hundredths % 100
    IN  IF x.type = "int" THEN sign \o whole
        ELSE IF frac % 10 = 0 THEN sign \o whole \o <<".", Digit(frac \div 10)>>
        ELSE sign \o whole \o <<".", Digit(frac \div 10), Digit(frac % 10)>>

(***************************************************************************)
(* MqttPublisher: the sink.  A call either hands the message to the MQTT   *)
(* client or raises (paho raises on a topic or payload it rejects); the    *)
(* source catches nothing, so a raise ends every caller up to run().       *)
(*                                                                         *)
(* The publishing operators thread one record st through the calls:        *)
(*   published, previous_bytes  the two objects' state                     *)
(*   log         the sink calls made, in order                             *)
(*   configCount, announced     history of the discovery publishes         *)
(*   samples     history of the rate samples                               *)
(*   failAt      the number of the sink call that raises (0: none)         *)
(*   raised      an exception is propagating: every later step is skipped  *)
(***************************************************************************)

\* MqttPublisher.publish(topic, payload); msg carries both.
SinkPublish(st, msg) ==
    IF st.raised THEN st
    ELSE IF Len(st.log) + 1 = st.failAt
    THEN [st EXCEPT !.log = Append(@, [msg EXCEPT !.ok = FALSE]), !.raised = TRUE]
    ELSE [st EXCEPT !.log = Append(@, msg)]

(***************************************************************************)
(* HADiscoveryPublisher                                                    *)
(***************************************************************************)

HaPrefix == <<"h", "o", "m", "e", "a", "s", "s", "i", "s", "t", "a", "n", "t">>
MqttTopic == <<"g", "o", "2", "r", "t", "c", "/", "t", "a", "b", "l", "e", "t", "s">>
SensorGo2rtc == <<"/", "s", "e", "n", "s", "o", "r", "/", "g", "o", "2", "r", "t", "c", "_">>
ConfigSuffix == <<"/", "c", "o", "n", "f", "i", "g">>
Manufacturer == <<"g", "o", "2", "r", "t", "c">>
Model == <<"A", "n", "d", "r", "o", "i", "d", " ", "T", "a", "b", "l", "e", "t">>
TabletName == <<"T", "a", "b", "l", "e", "t", " ">>

\* f"{device_id}_{entity_id}"
UniqueKey(device_id, entity_id) == device_id \o <<"_">> \o entity_id

\* The config dict of lines 113-120 (json.dumps keeps every key and value, so
\* the dict stands for its serialisation); unit is None when not given.
SensorConfig(device_id, entity_id, name, state_topic, device, unit) ==
    LET config == [name        |-> name,
                   unique_id   |-> Go2rtcPrefix \o device_id \o <<"_">> \o entity_id,
                   state_topic |-> state_topic,
                   device      |-> device]
    IN  IF Falsy(unit) THEN config
        ELSE config @@ [unit_of_measurement |-> unit]

\* f"{ha_prefix}/sensor/go2rtc_{device_id}/{entity_id}/config"
ConfigTopic(device_id, entity_id) ==
    HaPrefix \o SensorGo2rtc \o device_id \o <<"/">> \o entity_id \o ConfigSuffix

\* A sink call as the log keeps it; device_id and entity_id name the sensor the
\* call was made for.
ConfigMsg(device_id, entity_id, name, state_topic, device, unit) ==
    [kind |-> "config", ok |-> TRUE,
     device_id |-> device_id, entity_id |-> entity_id,
     topic |-> ConfigTopic(device_id, entity_id),
     payload |-> SensorConfig(device_id, entity_id, name, state_topic, device, unit)]

StateMsg(device_id, entity_id, topic, payload) ==
    [kind |-> "state", ok |-> TRUE,
     device_id |-> device_id, entity_id |-> entity_id,
     topic |-> topic, payload |-> payload]

\* The history of one discovery publish: one more sink call for the key, and
\* the sensor it announced.
NoteConfig(st, device_id, entity_id) ==
    LET key == UniqueKey(device_id, entity_id)
    IN  [st EXCEPT !.configCount = (key :> (Get(@, key, 0) + 1)) @@ @,
                   !.announced = @ \cup {<<device_id, entity_id>>}]

\* publish_sensor without the look-up in published: it publishes on every call.
publish_sensor_uncached(st, device_id, entity_id, name, state_topic, device, unit) ==
    IF st.raised THEN st
    ELSE LET s1 == SinkPublish(NoteConfig(st, device_id, entity_id),
                               ConfigMsg(device_id, entity_id, name,
                                         state_topic, device, unit))
         IN  IF s1.raised THEN s1
             ELSE [s1 EXCEPT !.published = @ \cup {UniqueKey(device_id, entity_id)}]

\* publish_sensor that adds the key before it calls the sink.
publish_sensor_add_first(st, device_id, entity_id, name, state_topic, device, unit) ==
    IF st.raised THEN st
    ELSE IF UniqueKey(device_id, entity_id) \in st.published THEN st
    ELSE SinkPublish(
             NoteConfig([st EXCEPT !.published = @ \cup {UniqueKey(device_id, entity_id)}],
                        device_id, entity_id),
             ConfigMsg(device_id, entity_id, name, state_topic, device, unit))

\* publish_sensor (lines 107-124): nothing for a key already published, else
\* build the config, hand it to the sink and, once the sink returned, add the key.
publish_sensor(st, device_id, entity_id, name, state_topic, device, unit) ==
    IF st.raised THEN st
    ELSE IF UniqueKey(device_id, entity_id) \in st.published THEN st
    ELSE LET s1 == SinkPublish(NoteConfig(st, device_id, entity_id),
                               ConfigMsg(device_id, entity_id, name,
                                         state_topic, device, unit))
         IN  IF s1.raised THEN s1
             ELSE [s1 EXCEPT !.published = @ \cup {UniqueKey(device_id, entity_id)}]

\* f"tablet_{ip.replace('.', '_')}"
DeviceId(ip) == TabletPrefix \o Replace(ip, ".", "_")

\* create_device_config(ip)
create_device_config(ip) ==
    [identifiers  |-> <<Go2rtcPrefix \o DeviceId(ip)>>,
     name         |-> TabletName \o ip,
     manufacturer |-> Manufacturer,
     model        |-> Model]

(***************************************************************************)
(* TabletPublisher                                                         *)
(***************************************************************************)

F_user_agent == <<"u", "s", "e", "r", "_", "a", "g", "e", "n", "t">>
F_source == <<"s", "o", "u", "r", "c", "e">>
F_format_name == <<"f", "o", "r", "m", "a", "t", "_", "n", "a", "m", "e">>
F_bytes_send == <<"b", "y", "t", "e", "s", "_", "s", "e", "n", "d">>
F_mbps == <<"m", "b", "p", "s">>
UserAgentName == <<"U", "s", "e", "r", " ", "A", "g", "e", "n", "t">>
MbpsName == <<" ", "M", "b", "p", "s">>
MbpsUnit == <<"M", "b", "p", "s">>
Lower == <<"a", "b", "c", "d", "e", "f", "g", "h", "i", "j", "k", "l", "m",
           "n", "o", "p", "q", "r", "s", "t", "u", "v", "w", "x", "y", "z">>
Upper == <<"A", "B", "C", "D", "E", "F", "G", "H", "I", "J", "K", "L", "M",
           "N", "O", "P", "Q", "R", "S", "T", "U", "V", "W", "X", "Y", "Z">>

IsLower(c) == \E i \in 1..Len(Lower) : Lower[i] = c
ToUpper(c) == IF IsLower(c) THEN Upper[CHOOSE i \in 1..Len(Lower) : Lower[i] = c]
              ELSE c

\* s.title() for a lower-case s: a letter that starts a word is capitalised.
Title(s) ==
    [i \in 1..Len(s) |-> IF i = 1 \/ ~IsLower(s[i - 1]) THEN ToUpper(s[i]) ELSE s[i]]

\* The three raw fields of _publish_stream's loop (line 168), and for each
\* field.replace('_', ' ').title() (line 176).
RawFields == <<F_source, F_format_name, F_bytes_send>>
FieldTitles == [i \in 1..Len(RawFields) |-> Title(Replace(RawFields[i], "_", " "))]
FieldTitle(field) == FieldTitles[CHOOSE i \in 1..Len(RawFields) : RawFields[i] = field]

\* f"{self.mqtt_topic}/{device_id}"
BaseTopic(device_id) == MqttTopic \o <<"/">> \o device_id

\* _publish_user_agent (lines 155-159)
PublishUserAgent(st, device_id, base_topic, device, user_agent) ==
    LET state_topic == base_topic \o <<"/">> \o F_user_agent
        s1 == publish_sensor(st, device_id, F_user_agent, UserAgentName,
                             state_topic, device, None)
    IN  SinkPublish(s1, StateMsg(device_id, F_user_agent, state_topic, user_agent))

\* _publish_field (lines 173-180); text is str(value).
PublishField(st, device_id, base_topic, device, stream_name, field, text) ==
    LET entity_id == stream_name \o <<"_">> \o field
        name == stream_name \o <<" ">> \o FieldTitle(field)
        state_topic == base_topic \o <<"/">> \o stream_name \o <<"/">> \o field
        s1 == publish_sensor(st, device_id, entity_id, name, state_topic, device, None)
    IN  SinkPublish(s1, StateMsg(device_id, entity_id, state_topic, text))

\* The history of the rate samples: last holds, per <<ip, stream_name>>, the
\* byte count of the pair's latest sample; now holds, for the pairs sampled in
\* the current cycle, the count sampled, whether and with what count the pair
\* was sampled before, the number calculate returned and how often the pair
\* was sampled in the cycle.
NoSamples == [last |-> EmptyDict, now |-> EmptyDict]

NoteSample(h, ip, stream_name, bytes_send, result) ==
    LET pair == <<ip, stream_name>>
        info == [current  |-> bytes_send,
                 seen     |-> pair \in DOMAIN h.last,
                 baseline |-> Get(h.last, pair, 0),
                 result   |-> result,
                 times    |-> IF pair \in DOMAIN h.now THEN h.now[pair].times + 1 ELSE 1]
    IN  [last |-> (pair :> bytes_send) @@ h.last,
         now  |-> (pair :> info) @@ h.now]

\* f"{ip}_{stream_name}", the calculator's key.
RateKey(ip, stream_name) == ip \o <<"_">> \o stream_name

\* _publish_mbps (lines 182-191): the sample is taken before the two publishes.
PublishMbps(st, ip, device_id, base_topic, device, stream_name, bytes_send) ==
    IF st.raised THEN st
    ELSE LET entity_id == stream_name \o <<"_">> \o F_mbps
             state_topic == base_topic \o <<"/">> \o stream_name \o <<"/">> \o F_mbps
             c == calculate(st.previous_bytes, RateKey(ip, stream_name), bytes_send)
             s1 == [st EXCEPT !.previous_bytes = c.previous_bytes,
                              !.samples = NoteSample(@, ip, stream_name,
                                                     bytes_send, c.result)]
             s2 == publish_sensor(s1, device_id, entity_id, stream_name \o MbpsName,
                                  state_topic, device, MbpsUnit)
         IN  SinkPublish(s2, StateMsg(device_id, entity_id, state_topic,
                                      NumToStr(c.result)))

\* _publish_stream (lines 166-171)
PublishStream(st, ip, device_id, base_topic, device, info) ==
    LET s1 == PublishField(st, device_id, base_topic, device, info.stream_name,
                           F_source, info.source)
        s2 == PublishField(s1, device_id, base_topic, device, info.stream_name,
                           F_format_name, info.format_name)
        s3 == PublishField(s2, device_id, base_topic, device, info.stream_name,
                           F_bytes_send, IntToStr(info.bytes_send))
    IN  PublishMbps(s3, ip, device_id, base_topic, device, info.stream_name,
                    info.bytes_send)

\* _publish_streams (lines 161-164)
RECURSIVE PublishStreams(_, _, _, _, _, _)
PublishStreams(st, ip, device_id, base_topic, device, streams) ==
    IF streams = <<>> THEN st
    ELSE PublishStreams(
             PublishStream(st, ip, device_id, base_topic, device, Head(streams)),
             ip, device_id, base_topic, device, Tail(streams))

\* TabletPublisher.publish(ip, tablet_data) (lines 146-153)
PublishTabletData(st, ip, tablet_data) ==
    LET device_id == DeviceId(ip)
        base_topic == BaseTopic(device_id)
        device == create_device_config(ip)
        s1 == PublishUserAgent(st, device_id, base_topic, device,
                               tablet_data.user_agent)
    IN  PublishStreams(s1, ip, device_id, base_topic, device, tablet_data.streams)

(***************************************************************************)
(* Bridge.run: fetch -> extract -> publish every tablet -> sleep, for ever. *)
(***************************************************************************)

VARIABLES
    pc,              \* where run() is: "fetch", "extract", "publish", "sleep", "crashed"
    cycle,           \* the number of the current poll cycle
    fetched,         \* how this cycle's fetch ended: "none", "ok", "failed"
    streams,         \* run()'s local streams
    tablets,         \* run()'s local tablets
    idx,             \* the position of the for loop in tablets.items()
    error,           \* the exception that ended run() ("" while it runs)
    previous_bytes,  \* MbpsCalculator.previous_bytes
    published,       \* HADiscoveryPublisher.published
    sinkLog,         \* the sink calls of the current cycle, in order
    configCount,     \* history: discovery publishes handed to the sink, per key
    announced,       \* history: the <<device_id, entity_id>> a config was published for
    samples,         \* history: the rate samples taken per <<ip, stream_name>>
    lastCall         \* the last direct call of a method under test and its result

vars == <<pc, cycle, fetched, streams, tablets, idx, error, previous_bytes,
          published, sinkLog, configCount, announced, samples, lastCall>>

\* The number of poll cycles explored.
MaxCycles == 3

\* What the status source may deliver to the poll loop.
Ip1Addr == <<"1", ":", "5">>
Ip12Addr == <<"1", "_", "2", ":", "5">>
XTablet == <<"x">> \o TabletSuffix
X2Tablet == <<"2", "_", "x">> \o TabletSuffix
Cam == <<"c", "a", "m">>
Ip1d2Addr == <<"1", ".", "2", ":", "5">>
LoopAddrs == {Ip1Addr, Ip12Addr}
LoopDomainNames == {XTablet, X2Tablet}
LoopBytes == {500000, 800000}

Consumer(addr, bytes) ==
    [remote_addr |-> addr, user_agent |-> <<"U", "A">>,
     format_name |-> <<"h">>, bytes_send |-> bytes]

StreamData(consumers) ==
    [producers |-> <<[source |-> <<"s">>]>>, consumers |-> consumers]

\* One consumer, two consumers (two clients) and two streams of one client.
OneConsumer(name, addr, bytes) == <<name, StreamData(<<Consumer(addr, bytes)>>)>>
TwoConsumers(name, bytes) ==
    <<name, StreamData(<<Consumer(Ip1Addr, bytes), Consumer(Ip12Addr, bytes)>>)>>

\* A stream outside the domain whose producer list is empty.
CamNoProducer ==
    <<Cam, [producers |-> <<>>, consumers |-> <<Consumer(Ip12Addr, 800000)>>]>>

LoopPayloads ==
    {Mapping(<<>>), JsonList(<<>>), Mapping(<<OneConsumer(Cam, Ip1Addr, 500000)>>),
     Mapping(<<CamNoProducer>>)}
    \cup {Mapping(<<OneConsumer(n, a, b)>>) :
             n \in LoopDomainNames, a \in LoopAddrs, b \in LoopBytes}
    \cup {Mapping(<<TwoConsumers(n, b)>>) : n \in LoopDomainNames, b \in LoopBytes}
    \cup {Mapping(<<OneConsumer(XTablet, a, b), OneConsumer(Cam, a, b),
                    OneConsumer(X2Tablet, a, b)>>) : a \in LoopAddrs, b \in LoopBytes}
    \cup {Mapping(<<OneConsumer(XTablet, Ip1d2Addr, b)>>) : b \in LoopBytes}
    \cup {Mapping(<<OneConsumer(XTablet, Ip1d2Addr, 500000),
                    OneConsumer(X2Tablet, Ip12Addr, 800000)>>)}

Init ==
    /\ pc = "fetch"
    /\ cycle = 1
    /\ fetched = "none"
    /\ streams = Mapping(<<>>)
    /\ tablets = <<>>
    /\ idx = 1
    /\ error = ""
    /\ previous_bytes = EmptyDict
    /\ published = {}
    /\ sinkLog = <<>>
    /\ configCount = EmptyDict
    /\ announced = {}
    /\ samples = NoSamples
    /\ lastCall = EmptyDict

\* fetch_streams without its try/except: a failed fetch ends run().
Fetch_failure_raises ==
    /\ pc = "fetch"
    /\ \/ \E p \in LoopPayloads :
            streams' = p /\ fetched' = "ok" /\ pc' = "extract" /\ UNCHANGED error
       \/ /\ fetched' = "failed"
          /\ pc' = "crashed"
          /\ error' = "URLError"
          /\ UNCHANGED streams
    /\ UNCHANGED <<cycle, tablets, idx, previous_bytes, published,
                   sinkLog, configCount, announced, samples, lastCall>>

\* fetch_streams (lines 17-24): the decoded document, or {} after any exception.
Fetch ==
    /\ pc = "fetch"
    /\ \/ \E p \in LoopPayloads : streams' = p /\ fetched' = "ok"
       \/ streams' = Mapping(<<>>) /\ fetched' = "failed"
    /\ pc' = "extract"
    /\ UNCHANGED <<cycle, tablets, idx, error, previous_bytes, published,
                   sinkLog, configCount, announced, samples, lastCall>>

\* tablets = extract_tablets(streams) (line 232); run() catches nothing, so an
\* exception ends it.
Extract ==
    /\ pc = "extract"
    /\ LET r == extract_tablets(streams)
       IN  IF r.raised
           THEN /\ pc' = "crashed"
                /\ error' = r.error
                /\ UNCHANGED <<tablets, idx>>
           ELSE /\ tablets' = r.value
                /\ idx' = 1
                /\ pc' = IF r.value = <<>> THEN "sleep" ELSE "publish"
                /\ UNCHANGED error
    /\ UNCHANGED <<cycle, fetched, streams, previous_bytes, published, sinkLog,
                   configCount, announced, samples, lastCall>>

\* The publishing state before the next tablet; failAt numbers the sink call
\* of this cycle that raises.
PubState(failAt) ==
    [published |-> published, previous_bytes |-> previous_bytes, log |-> sinkLog,
     configCount |-> configCount, announced |-> announced, samples |-> samples,
     failAt |-> failAt, raised |-> FALSE]

\* self.publisher.publish(ip, tablet_data) for the next tablet (lines 234-235).
\* Any one of its sink calls may raise, which ends run().
PublishTablet ==
    /\ pc = "publish"
    /\ LET t == tablets[idx]
           calls == Len(PublishTabletData(PubState(0), t.ip, t).log)
       IN  \E failAt \in {0} \cup ((Len(sinkLog) + 1)..calls) :
             LET s == PublishTabletData(PubState(failAt), t.ip, t)
             IN  /\ published' = s.published
                 /\ previous_bytes' = s.previous_bytes
                 /\ sinkLog' = s.log
                 /\ configCount' = s.configCount
                 /\ announced' = s.announced
                 /\ samples' = s.samples
                 /\ IF s.raised
                    THEN pc' = "crashed" /\ error' = "SinkError" /\ UNCHANGED idx
                    ELSE /\ idx' = idx + 1
                         /\ pc' = IF idx = Len(tablets) THEN "sleep" ELSE "publish"
                         /\ UNCHANGED error
    /\ UNCHANGED <<cycle, fetched, streams, tablets, lastCall>>

\* The end of a cycle with the announced set emptied for the next one.
Sleep_forgets ==
    /\ pc = "sleep"
    /\ cycle < MaxCycles
    /\ pc' = "fetch"
    /\ cycle' = cycle + 1
    /\ fetched' = "none"
    /\ streams' = Mapping(<<>>)
    /\ tablets' = <<>>
    /\ idx' = 1
    /\ sinkLog' = <<>>
    /\ samples' = [samples EXCEPT !.now = EmptyDict]
    /\ published' = {}
    /\ UNCHANGED <<error, previous_bytes, configCount, announced, lastCall>>

\* time.sleep(poll_interval) (line 240) and the start of the next iteration,
\* whose locals and per-cycle log start afresh.
Sleep ==
    /\ pc = "sleep"
    /\ cycle < MaxCycles
    /\ pc' = "fetch"
    /\ cycle' = cycle + 1
    /\ fetched' = "none"
    /\ streams' = Mapping(<<>>)
    /\ tablets' = <<>>
    /\ idx' = 1
    /\ sinkLog' = <<>>
    /\ samples' = [samples EXCEPT !.now = EmptyDict]
    /\ UNCHANGED <<error, previous_bytes, published, configCount, announced, lastCall>>

Next == Fetch \/ Extract \/ PublishTablet \/ Sleep

Spec == Init /\ [][Next]_vars

\* run() is sequential code: extract_tablets on the {} of a failed fetch
\* returns at once and time.sleep(poll_interval) returns, so once run() is at
\* one of the two it takes the step.
SpecLive == Spec /\ WF_vars(fetched = "failed" /\ Extract) /\ WF_vars(Sleep)

(***************************************************************************)
(* HADiscoveryPublisher on its own: any sequence of publish_sensor() calls *)
(* on one publisher, by a caller that survives a raise of the sink.        *)
(***************************************************************************)

\* The number of sink calls explored.
MaxSensorCalls == 4

SensorIps == {<<"1">>, <<"1", "_", "2">>}

InitSensor ==
    /\ Init
    /\ sinkLog = <<>>

\* A call publish_sensor(device_id, entity_id, name, state_topic, device) with
\* the arguments _publish_field passes for the source of a stream; the sink
\* raises in it or not.  lastCall keeps the key, whether it was in published
\* before, how many discovery publishes it had had, and whether the call raised.
PublishSensor ==
    /\ Len(sinkLog) < MaxSensorCalls
    /\ \E ip \in SensorIps, stream_name \in LoopDomainNames, fails \in BOOLEAN :
         LET device_id == DeviceId(ip)
             entity_id == stream_name \o <<"_">> \o F_source
             name == stream_name \o <<" ">> \o FieldTitle(F_source)
             state_topic == BaseTopic(device_id) \o <<"/">> \o stream_name
                                \o <<"/">> \o F_source
             key == UniqueKey(device_id, entity_id)
             s == publish_sensor(PubState(IF fails THEN Len(sinkLog) + 1 ELSE 0),
                                 device_id, entity_id, name, state_topic,
                                 create_device_config(ip), None)
         IN  /\ published' = s.published
             /\ sinkLog' = s.log
             /\ configCount' = s.configCount
             /\ announced' = s.announced
             /\ lastCall' = [key    |-> key,
                             was_in |-> key \in published,
                             before |-> Get(configCount, key, 0),
                             failed |-> s.raised]
    /\ UNCHANGED <<pc, cycle, fetched, streams, tablets, idx, error,
                   previous_bytes, samples>>

SpecSensor == InitSensor /\ [][PublishSensor]_vars

(***************************************************************************)
(* MbpsCalculator on its own: any sequence of calculate() calls on one     *)
(* calculator.                                                             *)
(***************************************************************************)

\* Cumulative byte counts sampled: multiples of 100000 up to MaxByteSteps of
\* them, and one small count.  Every difference is a multiple of 10000 and so
\* never an odd multiple of 18750: no quotient is an exact half of a hundredth.
MaxByteSteps == 13
ByteValues == {k * 100000 : k \in 0..MaxByteSteps} \cup {10000}

CalcKeys == {RateKey(<<"1">>, XTablet), RateKey(<<"1", "_", "2">>, XTablet)}

InitCalc ==
    /\ Init
    /\ pc = "fetch"

\* A call calculate(key, current_bytes).  lastCall keeps the call, what the
\* caller had sampled for the key before (seen, baseline), every key's last
\* sampled count (sampled) and the returned number.
Calculate ==
    /\ \E key \in CalcKeys, current_bytes \in ByteValues :
         LET c == calculate(previous_bytes, key, current_bytes)
             before == Get(lastCall, "sampled", EmptyDict)
         IN  /\ previous_bytes' = c.previous_bytes
             /\ lastCall' = [key |-> key,
                             current_bytes |-> current_bytes,
                             seen |-> key \in DOMAIN before,
                             baseline |-> Get(before, key, 0),
                             sampled |-> (key :> current_bytes) @@ before,
                             result |-> c.result]
    /\ UNCHANGED <<pc, cycle, fetched, streams, tablets, idx, error, published,
                   sinkLog, configCount, announced, samples>>

SpecCalc == InitCalc /\ [][Calculate]_vars

(***************************************************************************)
(* TabletExtractor on its own: extract_tablets applied to one payload.     *)
(***************************************************************************)

\* The longest consumer list of the stream under test.
MaxConsumers == 2

\* remote_addr: empty, only a port, ip and port, no colon.
ExtractAddrs == {<<>>, <<":", "5">>, Ip1Addr, <<"1", "2">>}
AddrParts == {EmptyDict} \cup {[remote_addr |-> a] : a \in ExtractAddrs}
DetailParts ==
    {EmptyDict,
     [user_agent |-> <<"U", "A">>],
     [format_name |-> <<"g">>, bytes_send |-> 800000],
     [user_agent |-> <<"U", "B">>, format_name |-> <<"h">>, bytes_send |-> 500000]}
ConsumerDicts == {a @@ d : a \in AddrParts, d \in DetailParts}

ProducerParts ==
    {EmptyDict}
    \cup {[producers |-> p] :
            p \in {<<>>, <<EmptyDict>>, <<[source |-> <<"s">>]>>, <<[url |-> <<"u">>]>>,
                   <<[source |-> <<"s">>, url |-> <<"u">>]>>,
                   <<[url |-> <<"u">>], [source |-> <<"s">>]>>}}

\* The consumers key of a stream: absent, or a list of up to MaxConsumers dicts.
ConsumerPartsOfLen(k) ==
    IF k = 0 THEN {EmptyDict, [consumers |-> <<>>]}
    ELSE {[consumers |-> c] : c \in [1..k -> ConsumerDicts]}

\* The stream under test: a domain stream alone ("alone"), or with a second
\* domain stream after ("first") or before ("second") it, or a stream outside
\* the domain ("cam").
OtherStream == <<X2Tablet, [consumers |-> <<[remote_addr |-> Ip1Addr]>>]>>
ExtractShapes == {"alone", "first", "second", "cam"}
ExtractPayload(shape, stream_data) ==
    CASE shape = "alone"  -> Mapping(<<<<XTablet, stream_data>>>>)
      [] shape = "first"  -> Mapping(<<<<XTablet, stream_data>>, OtherStream>>)
      [] shape = "second" -> Mapping(<<OtherStream, <<XTablet, stream_data>>>>)
      [] shape = "cam"    -> Mapping(<<<<Cam, stream_data>>>>)

InitExtract ==
    /\ pc = "extract"
    /\ cycle = 1
    /\ fetched = "ok"
    /\ \E shape \in ExtractShapes, p \in ProducerParts, k \in 0..MaxConsumers :
         \E c \in ConsumerPartsOfLen(k) :
           streams = ExtractPayload(shape, p @@ c)
    /\ tablets = <<>>
    /\ idx = 1
    /\ error = ""
    /\ previous_bytes = EmptyDict
    /\ published = {}
    /\ sinkLog = <<>>
    /\ configCount = EmptyDict
    /\ announced = {}
    /\ samples = NoSamples
    /\ lastCall = EmptyDict

SpecExtract == InitExtract /\ [][Extract]_vars

(***************************************************************************)
(* Properties of MbpsCalculator (checked under SpecCalc).                  *)
(***************************************************************************)

Called == DOMAIN lastCall # {}

\* The rate of the last call is the nearest hundredth of
\* (current - baseline) * 8 / (poll_interval * 1,000,000).
NearestHundredth ==
    LET diff == lastCall.current_bytes - lastCall.baseline
    IN  2 * Abs(Hundredths(lastCall.result) * (poll_interval * 1000000) - diff * 8 * 100)
            <= poll_interval * 1000000

\* C4: a key never sampled before gets 0 back, whatever the byte count, and the
\* byte count becomes its baseline.
C4_FirstSampleZero ==
    (Called /\ ~lastCall.seen) =>
        /\ Hundredths(lastCall.result) = 0
        /\ lastCall.key \in DOMAIN previous_bytes
        /\ previous_bytes[lastCall.key] = lastCall.current_bytes

C4_Witness ==
    /\ Called
    /\ ~lastCall.seen
    /\ lastCall.current_bytes = 1300000
    /\ DOMAIN lastCall.sampled = CalcKeys

\* C5: a key with a baseline gets (current - baseline) * 8 / (interval * 10^6)
\* rounded to 2 decimals (0.08 for 1,000,000 then 1,300,000 at interval 30), and
\* after every call each key's baseline is the last count sampled for it.
C5_RateFormula ==
    Called =>
        /\ previous_bytes = lastCall.sampled
        /\ lastCall.seen => NearestHundredth
        /\ (lastCall.seen /\ lastCall.baseline = 1000000
                /\ lastCall.current_bytes = 1300000) =>
              Hundredths(lastCall.result) = 8

C5_Witness ==
    /\ Called
    /\ lastCall.seen
    /\ lastCall.baseline = 1000000
    /\ lastCall.current_bytes = 1300000
    /\ Hundredths(lastCall.result) = 8
    /\ previous_bytes[lastCall.key] = 1300000

\* C6 as stated: a count below the baseline gives a negative rate and lowers
\* the baseline to the new count.
C6_ResetGivesNegativeRate ==
    (Called /\ lastCall.seen /\ lastCall.current_bytes < lastCall.baseline) =>
        /\ Hundredths(lastCall.result) < 0
        /\ previous_bytes[lastCall.key] = lastCall.current_bytes

\* C6 as amended: a count below the baseline gives the negative delta's rate
\* rounded to 2 decimals and not clamped: a float with the minus sign, below
\* zero whenever the unrounded rate exceeds 0.005 in magnitude and -0.0 when it
\* rounds to nothing; the baseline is lowered to the new count.
C6_ResetNotClamped ==
    (Called /\ lastCall.seen /\ lastCall.current_bytes < lastCall.baseline) =>
        LET drop == lastCall.baseline - lastCall.current_bytes
        IN  /\ lastCall.result.type = "float"
            /\ lastCall.result.neg
            /\ NearestHundredth
            /\ (drop * 8 * 100 * 2 > poll_interval * 1000000) =>
                  Hundredths(lastCall.result) < 0
            /\ previous_bytes[lastCall.key] = lastCall.current_bytes

C6_Witness ==
    /\ Called
    /\ lastCall.seen
    /\ lastCall.baseline = 800000
    /\ lastCall.current_bytes = 500000
    /\ Hundredths(lastCall.result) = -8
    /\ previous_bytes[lastCall.key] = 500000

(***************************************************************************)
(* Properties of TabletExtractor (checked under SpecExtract).              *)
(***************************************************************************)

\* extract_tablets has returned.
Extracted == pc \in {"publish", "sleep"}

Items == streams.items
DomainStreams == {i \in 1..Len(Items) : EndsWith(Items[i][1], TabletSuffix)}
ConsumersOf(i) == Get(Items[i][2], "consumers", <<>>)
AddrOf(c) == Get(c, "remote_addr", <<>>)
HasColon(addr) == \E j \in 1..Len(addr) : addr[j] = ":"

\* ip is the part of addr before its first colon (all of addr without one).
BeforeFirstColon(ip, addr) ==
    /\ Len(ip) <= Len(addr)
    /\ SubSeq(addr, 1, Len(ip)) = ip
    /\ ~HasColon(ip)
    /\ Len(ip) = Len(addr) \/ addr[Len(ip) + 1] = ":"

Prefixes(addr) == {SubSeq(addr, 1, k) : k \in 0..Len(addr)}

\* The view holds a metric of stream name for client ip.
HasMetric(ip, name) ==
    \E t \in 1..Len(tablets) :
        /\ tablets[t].ip = ip
        /\ \E m \in 1..Len(tablets[t].streams) :
               tablets[t].streams[m].stream_name = name

ExampleAddr == <<"1", "9", "2", ".", "1", "6", "8", ".", "5", "0", ".", "6", "7",
                 ":", "5", "4", "3", "2", "1">>
ExampleIp == <<"1", "9", "2", ".", "1", "6", "8", ".", "5", "0", ".", "6", "7">>

\* C8: whatever producers and consumer fields a domain stream record has or
\* lacks, extraction completes, and each metric has the first producer's source
\* (else its url, else empty text), a format_name defaulting to empty text and a
\* byte count defaulting to 0.
ExpectedSource(stream_data) ==
    LET producers == Get(stream_data, "producers", <<>>)
    IN  IF producers = <<>> THEN <<>>
        ELSE Get(producers[1], "source", Get(producers[1], "url", <<>>))

C8_MissingFieldsNeverFatal ==
    (pc # "extract") =>
        /\ pc # "crashed"
        /\ \A t \in 1..Len(tablets) : \A m \in 1..Len(tablets[t].streams) :
             LET metric == tablets[t].streams[m]
             IN  \E i \in DomainStreams : \E j \in 1..Len(ConsumersOf(i)) :
                   /\ Items[i][1] = metric.stream_name
                   /\ BeforeFirstColon(tablets[t].ip, AddrOf(ConsumersOf(i)[j]))
                   /\ metric.source = ExpectedSource(Items[i][2])
                   /\ metric.format_name = Get(ConsumersOf(i)[j], "format_name", <<>>)
                   /\ metric.bytes_send = Get(ConsumersOf(i)[j], "bytes_send", 0)

\* C9: a consumer whose remote address has no colon creates no client entry
\* and no stream metric (no other consumer of the stream yields the same key).
C9_NoColonSkipped ==
    Extracted =>
        \A i \in DomainStreams : \A j \in 1..Len(ConsumersOf(i)) :
            LET addr == AddrOf(ConsumersOf(i)[j])
            IN  (/\ ~HasColon(addr)
                 /\ \A k \in 1..Len(ConsumersOf(i)) :
                        HasColon(AddrOf(ConsumersOf(i)[k])) =>
                            ~BeforeFirstColon(addr, AddrOf(ConsumersOf(i)[k])))
                => ~HasMetric(addr, Items[i][1])

\* C10: the client key of a consumer is the part of its remote address before
\* the first colon; a consumer with a non-empty key has its metric in the view,
\* and every client entry and metric of the view comes from such a consumer, so
\* a consumer whose key is empty (address absent, empty or starting with a
\* colon) creates nothing.
C10_IpDerivation ==
    /\ extract_ip(ExampleAddr) = ExampleIp
    /\ Extracted =>
        /\ \A i \in DomainStreams : \A j \in 1..Len(ConsumersOf(i)) :
             \A ip \in Prefixes(AddrOf(ConsumersOf(i)[j])) :
                (BeforeFirstColon(ip, AddrOf(ConsumersOf(i)[j])) /\ ip # <<>>)
                    => HasMetric(ip, Items[i][1])
        /\ \A t \in 1..Len(tablets) :
             /\ tablets[t].ip # <<>>
             /\ tablets[t].streams # <<>>
             /\ \A m \in 1..Len(tablets[t].streams) :
                  \E i \in DomainStreams : \E j \in 1..Len(ConsumersOf(i)) :
                     /\ Items[i][1] = tablets[t].streams[m].stream_name
                     /\ BeforeFirstColon(tablets[t].ip, AddrOf(ConsumersOf(i)[j]))

\* A stream with a consumer whose address starts with a colon and one with ip
\* and port: only the second is in the view.
C10_Witness ==
    /\ Extracted
    /\ Len(Items) = 1
    /\ Items[1][1] = XTablet
    /\ Len(ConsumersOf(1)) = 2
    /\ AddrOf(ConsumersOf(1)[1]) = <<":", "5">>
    /\ AddrOf(ConsumersOf(1)[2]) = Ip1Addr
    /\ Len(tablets) = 1
    /\ tablets[1].ip = <<"1">>

(***************************************************************************)
(* Properties of the poll loop (checked under Spec).                       *)
(***************************************************************************)

LogIndexes(kind) == {i \in 1..Len(sinkLog) : sinkLog[i].kind = kind}

\* The state publishes of this cycle for one sensor.
StateCount(device_id, entity_id) ==
    Cardinality({i \in LogIndexes("state") :
                    /\ sinkLog[i].device_id = device_id
                    /\ sinkLog[i].entity_id = entity_id})

\* C1: while the sink has not failed, a key has had exactly one discovery
\* publish if it is in the announced set and none otherwise, however often
\* publish_sensor was called with it.
C1_AnnounceOnce ==
    (error # "SinkError") =>
        /\ DOMAIN configCount = published
        /\ \A key \in published : configCount[key] = 1

\* A later cycle that published state for sensors all announced before: no
\* discovery publish in it.
C1_Witness ==
    /\ cycle > 1
    /\ pc = "sleep"
    /\ error = ""
    /\ LogIndexes("state") # {}
    /\ LogIndexes("config") = {}
    /\ \A i \in LogIndexes("state") :
           UniqueKey(sinkLog[i].device_id, sinkLog[i].entity_id) \in published

\* The cycle is over: every tablet was published, or a publish raised.
CycleOver == pc = "sleep" \/ (pc = "crashed" /\ error = "SinkError")

StreamFields == {F_source, F_format_name, F_bytes_send, F_mbps}

\* C2: in every cycle each client of the view gets exactly one state publish
\* for user_agent and, per stream, one for each of source, format_name,
\* bytes_send and mbps, whatever the announced set holds.
C2_StateEveryCycle ==
    CycleOver =>
        \A t \in 1..Len(tablets) :
            /\ StateCount(DeviceId(tablets[t].ip), F_user_agent) = 1
            /\ \A m \in 1..Len(tablets[t].streams) : \A f \in StreamFields :
                 StateCount(DeviceId(tablets[t].ip),
                            tablets[t].streams[m].stream_name \o <<"_">> \o f) = 1

\* The sensors publish_sensor or a state publish was made for.
SensorsSeen ==
    announced \cup {<<sinkLog[i].device_id, sinkLog[i].entity_id>> : i \in 1..Len(sinkLog)}

\* C3: two distinct (device, sensor) pairs never share a cache key, so every
\* sensor whose state is published has had its own discovery config published.
C3_KeysUnique ==
    /\ \A a, b \in SensorsSeen :
          UniqueKey(a[1], a[2]) = UniqueKey(b[1], b[2]) => a = b
    /\ \A i \in LogIndexes("state") :
          <<sinkLog[i].device_id, sinkLog[i].entity_id>> \in announced

\* C7: a fetched document that is not a mapping gives an empty view and no
\* publish, and the loop goes on to sleep.
C7_NonMappingPayload ==
    (pc \notin {"fetch", "extract"} /\ streams.type # "dict") =>
        /\ pc = "sleep"
        /\ tablets = <<>>
        /\ sinkLog = <<>>

\* The names of the payload's streams inside and outside the domain.
DomainNames == {Items[i][1] : i \in DomainStreams}
OutsideNames == {Items[i][1] : i \in (1..Len(Items)) \ DomainStreams}

\* The sensors a client of the view may have: user_agent and, per domain
\* stream of the payload, the four stream sensors.
DomainEntities ==
    {F_user_agent} \cup {name \o <<"_">> \o f : name \in DomainNames, f \in StreamFields}

\* C11: a stream whose name does not end with "_tablet" gives the view no
\* client and no metric, whatever it holds, so no publish is made for a sensor
\* of it and no rate key is sampled for it.
C11_SuffixFilter ==
    /\ \A t \in 1..Len(tablets) :
         /\ tablets[t].streams # <<>>
         /\ \A m \in 1..Len(tablets[t].streams) :
              /\ tablets[t].streams[m].stream_name \in DomainNames
              /\ tablets[t].streams[m].stream_name \notin OutsideNames
              /\ EndsWith(tablets[t].streams[m].stream_name, TabletSuffix)
    /\ (Extracted /\ DomainNames = {}) => (tablets = <<>> /\ pc = "sleep")
    /\ \A i \in 1..Len(sinkLog) : sinkLog[i].entity_id \in DomainEntities
    /\ \A key \in DOMAIN previous_bytes : EndsWith(key, TabletSuffix)

\* A cycle completed on a payload with a stream outside the domain, which has
\* a consumer, between two domain streams.
C11_Witness ==
    /\ pc = "sleep"
    /\ Len(Items) = 3
    /\ OutsideNames = {Cam}
    /\ ConsumersOf(2) # <<>>
    /\ Len(tablets) = 1
    /\ Len(tablets[1].streams) = 2
    /\ Len(sinkLog) > 0

\* A payload whose only stream is outside the domain and has an empty
\* producer list: the view is empty and the cycle publishes nothing.
C11_WitnessOutsideOnly ==
    /\ pc = "sleep"
    /\ Items = <<CamNoProducer>>
    /\ tablets = <<>>
    /\ sinkLog = <<>>

\* A step of a cycle whose fetch failed: the payload is the empty mapping, the
\* view stays empty, nothing is published, the baselines and the announced set
\* stay as they were and run() does not end.
FailedCycleStep ==
    (fetched = "failed" \/ fetched' = "failed") =>
        /\ fetched' = "failed" => streams' = Mapping(<<>>)
        /\ tablets' = <<>>
        /\ sinkLog' = <<>>
        /\ previous_bytes' = previous_bytes
        /\ published' = published
        /\ configCount' = configCount
        /\ pc' \in {"extract", "sleep", "fetch"}
        /\ error' = ""

\* C12: a cycle whose fetch fails processes no client, publishes nothing,
\* leaves the baselines and the announced set unchanged, and goes on to sleep
\* and to the next fetch, however many cycles failed before it.
C12_FetchFailureSurvived ==
    /\ [][FailedCycleStep]_vars
    /\ \A c \in 1..(MaxCycles - 1) :
          (fetched = "failed" /\ cycle = c) ~> (pc = "fetch" /\ cycle = c + 1)

\* A failed cycle after a cycle that published: it sleeps with the announced
\* set and the baselines kept.
C12_Witness ==
    /\ fetched = "failed"
    /\ pc = "sleep"
    /\ cycle > 1
    /\ published # {}
    /\ DOMAIN previous_bytes # {}
    /\ sinkLog = <<>>

\* The sink calls of this cycle that raised.
FailedCalls == {i \in 1..Len(sinkLog) : ~sinkLog[i].ok}

\* C13: a sink call that fails does not end the cycle: run() goes on with the
\* next message (the call is not the last thing the cycle did unless it was
\* the last message of the last client) and later sleeps.
C13_SinkFailureSurvived ==
    FailedCalls # {} =>
        /\ pc \in {"publish", "sleep"}
        /\ error = ""

\* The consumers of the payload's domain streams whose address gives ip, as
\* <<stream, consumer>> positions, and the iteration order of the two loops.
ConsumerPositions(ip) ==
    {p \in UNION {{<<i, j>> : j \in 1..Len(ConsumersOf(i))} : i \in DomainStreams} :
        /\ ip # <<>>
        /\ BeforeFirstColon(ip, AddrOf(ConsumersOf(p[1])[p[2]]))}

NotAfter(p, q) == p[1] < q[1] \/ (p[1] = q[1] /\ p[2] <= q[2])

ConsumerAt(p) == ConsumersOf(p[1])[p[2]]

\* C14: the metric of (ip, stream) is built from the last consumer of that
\* stream with that ip alone, and the client's user_agent is that of the first
\* consumer with that ip in the payload (empty text when it has none).
C14_OverwriteRules ==
    Extracted =>
        \A t \in 1..Len(tablets) :
            LET P == ConsumerPositions(tablets[t].ip)
            IN  /\ \E p \in P :
                      /\ \A q \in P : NotAfter(p, q)
                      /\ tablets[t].user_agent = Get(ConsumerAt(p), "user_agent", <<>>)
                /\ \A m \in 1..Len(tablets[t].streams) :
                      LET metric == tablets[t].streams[m]
                      IN  \E p \in P :
                            /\ Items[p[1]][1] = metric.stream_name
                            /\ \A q \in P : q[1] = p[1] => NotAfter(q, p)
                            /\ metric.source = ExpectedSource(Items[p[1]][2])
                            /\ metric.format_name = Get(ConsumerAt(p), "format_name", <<>>)
                            /\ metric.bytes_send = Get(ConsumerAt(p), "bytes_send", 0)

\* One stream with two consumers of the same ip: the first has no user_agent,
\* the second has one and other metric fields.
C14_Witness ==
    /\ Extracted
    /\ Len(Items) = 1
    /\ Len(ConsumersOf(1)) = 2
    /\ AddrOf(ConsumersOf(1)[1]) = Ip1Addr
    /\ AddrOf(ConsumersOf(1)[2]) = Ip1Addr
    /\ "user_agent" \notin DOMAIN ConsumersOf(1)[1]
    /\ Get(ConsumersOf(1)[1], "format_name", <<>>) = <<"g">>
    /\ Get(ConsumersOf(1)[2], "user_agent", <<>>) = <<"U", "B">>
    /\ Len(tablets) = 1
    /\ tablets[1].user_agent = <<>>
    /\ Len(tablets[1].streams) = 1
    /\ tablets[1].streams[1].format_name = <<"h">>
    /\ tablets[1].streams[1].bytes_send = 500000

\* C15: two discovery payloads whose topics carry the same device_id embed
\* the same device block (stated for the discovery publishes of one cycle).
C15_DeviceBlockIdentical ==
    \A i, j \in LogIndexes("config") :
        sinkLog[i].device_id = sinkLog[j].device_id =>
            sinkLog[i].payload.device = sinkLog[j].payload.device

\* C16: a pair's rate is computed from the count the same pair had when it
\* was last sampled (0 when it never was), a pair of the view is sampled once
\* per cycle, and after a sample of any pair every pair's baseline is still the
\* count of its own latest sample; 500000 then 800000 gives 0 and then 0.08.
C16_PairsIndependent ==
    /\ \A pair \in DOMAIN samples.now :
          LET s == samples.now[pair]
          IN  /\ s.times = 1
              /\ s.result = IF s.seen THEN Mbps(s.current - s.baseline) ELSE IntNum(0)
              /\ (s.seen /\ s.baseline = 500000 /\ s.current = 800000) =>
                     NumToStr(s.result) = <<"0", ".", "0", "8">>
    /\ \A pair \in DOMAIN samples.last :
          /\ RateKey(pair[1], pair[2]) \in DOMAIN previous_bytes
          /\ previous_bytes[RateKey(pair[1], pair[2])] = samples.last[pair]
    /\ pc = "sleep" =>
          \A t \in 1..Len(tablets) : \A m \in 1..Len(tablets[t].streams) :
              <<tablets[t].ip, tablets[t].streams[m].stream_name>> \in DOMAIN samples.now

\* C17: a state value is published for a sensor only after a discovery config
\* for that sensor: the sensor has had a discovery publish, and a discovery
\* publish of this cycle that names the state topic comes before the value.
C17_DiscoveryBeforeState ==
    \A i \in LogIndexes("state") :
        /\ <<sinkLog[i].device_id, sinkLog[i].entity_id>> \in announced
        /\ \A j \in LogIndexes("config") :
              sinkLog[j].payload.state_topic = sinkLog[i].topic => j < i

(***************************************************************************)
(* Properties of HADiscoveryPublisher (checked under SpecSensor).          *)
(***************************************************************************)

\* C18: the key is added only once the sink call has returned: a call whose
\* sink call raises leaves the key out, so that the next call with the key
\* makes the discovery publish again; a key in the set has had a discovery
\* publish that returned.
C18_AddAfterSink ==
    /\ \A key \in published :
          /\ key \in DOMAIN configCount
          /\ \E i \in LogIndexes("config") :
                /\ sinkLog[i].ok
                /\ UniqueKey(sinkLog[i].device_id, sinkLog[i].entity_id) = key
    /\ Called =>
          /\ lastCall.was_in =>
                (~lastCall.failed /\ configCount[lastCall.key] = lastCall.before)
          /\ ~lastCall.was_in => configCount[lastCall.key] = lastCall.before + 1
          /\ (~lastCall.was_in /\ lastCall.failed) => lastCall.key \notin published
          /\ (~lastCall.was_in /\ ~lastCall.failed) => lastCall.key \in published

\* A call whose discovery publish returned, for a key whose earlier discovery
\* publish had raised.
C18_Witness ==
    /\ Called
    /\ ~lastCall.was_in
    /\ ~lastCall.failed
    /\ lastCall.before = 1
    /\ configCount[lastCall.key] = 2
    /\ lastCall.key \in published
    /\ ~sinkLog[1].ok

(***************************************************************************)
(* Further properties of the poll loop (checked under Spec).               *)
(***************************************************************************)

\* C19: no step of the loop removes a key from the announced set, whether the
\* cycle's fetch failed, its payload was empty or its clients and streams are
\* not those of earlier cycles.
C19_AnnouncedOnlyGrows == [][published \subseteq published']_vars

\* A later cycle whose payload has no client, over with the keys of earlier
\* cycles still in the set.
C19_Witness ==
    /\ cycle > 1
    /\ pc = "sleep"
    /\ fetched = "ok"
    /\ tablets = <<>>
    /\ Cardinality(published) >= 5

IsDigit(c) == c \in {"0", "1", "2", "3", "4", "5", "6", "7", "8", "9"}

\* The state publishes of this cycle made for an mbps sensor.
MbpsStates ==
    {i \in LogIndexes("state") : EndsWith(sinkLog[i].entity_id, <<"_">> \o F_mbps)}

\* C20: the text published to an mbps state topic has exactly 2 decimal
\* places: a point followed by two digits ends it.
C20_TwoDecimals ==
    \A i \in MbpsStates :
        LET text == sinkLog[i].payload
            n == Len(text)
        IN  /\ n >= 4
            /\ text[n - 2] = "."
            /\ IsDigit(text[n - 1])
            /\ IsDigit(text[n])
            /\ \A k \in 1..(n - 3) : IsDigit(text[k]) \/ (k = 1 /\ text[k] = "-")

====
